---------------------------- MODULE Spec2Model ----------------------------
(***************************************************************************)
(* State-machine model of server/game_server.py (class GameServer): the    *)
(* session directory `games`, the connection registry `connections`, the   *)
(* per-connection handler coroutines and the question_timeout tasks.       *)
(*                                                                         *)
(* Scheduling follows asyncio: a coroutine runs without interruption from  *)
(* one suspension point to the next, so each action below is one such run. *)
(* The suspension points of the code are `async for message in websocket`, *)
(* asyncio.sleep(20) and asyncio.sleep(3).  websocket.send() returns       *)
(* without suspending while the peer's write buffer is below its high-water*)
(* mark, which is the case modelled here, so a broadcast is part of the    *)
(* step that calls it.  Sleeps are modelled without a clock, by the order  *)
(* in which the event loop wakes the sleepers: a sleep(3) ends before      *)
(* every sleep that began after it, a sleep(20) before every sleep(20)     *)
(* that began after it and after every sleep(3) that began before it.      *)
(*                                                                         *)
(* A Python dict is modelled as a sequence of [key, val] entries in        *)
(* insertion order (dict iteration order, which max() and broadcast() use).*)
(***************************************************************************)
EXTENDS Integers, Sequences, FiniteSets, TLC

VARIABLES
    games,        \* self.games: game_id -> game record
    connections,  \* self.connections: websocket -> <<game_id, player_name>>
    closed,       \* the websockets whose .closed is True
    handler,      \* per websocket: where its handle_connection coroutine is
    sleeping,     \* the coroutines in asyncio.sleep, in the order they went to sleep
    ev,           \* history: the step that led to this state
    out           \* history: the broadcasts made by that step, in order

vars == <<games, connections, closed, handler, sleeping, ev, out>>

---------------------------------------------------------------------------
(* Bounds of the model *)

MaxConn == 2      \* websockets ever accepted by the server
MaxTasks == 3     \* delayed continuations (timeouts, grace delays) pending at once
MaxPlayers == 3   \* players of the session a broadcast is studied on
MaxCorrect == 1   \* a score is at most 10 * MaxCorrect

GameIds == {"g1"}
NameOrder == <<"a", "b">>
Names == {NameOrder[i] : i \in DOMAIN NameOrder}
Sockets == 1..MaxConn

---------------------------------------------------------------------------
(* Python values *)

None == [none |-> TRUE]     \* None where a question dict is expected
NoneStr == "None"           \* None where a string is expected (winner, answer)

time_limit == 20     \* 'time_limit': 20 and asyncio.sleep(20)
grace_delay == 3     \* asyncio.sleep(3)
points == 10

\* load_questions(): the sample bank
load_questions ==
    << [term |-> "awe",
        meaning |-> "friendly greeting; hey/what's up",
        distractors |-> <<"goodbye", "please", "thank you">>,
        difficulty |-> "easy"],
       [term |-> "braai",
        meaning |-> "barbecue; cook meat over coals",
        distractors |-> <<"bake bread", "stir-fry veggies", "drink tea">>,
        difficulty |-> "easy"],
       [term |-> "howzit",
        meaning |-> "hello; how are you?",
        distractors |-> <<"goodbye", "please", "congrats">>,
        difficulty |-> "easy"] >>

\* the answers a client may submit: every meaning of the bank (right for one
\* question, wrong for the others) and a message without "answer", for which
\* data.get('answer') is None
Answers ==
    {load_questions[i].meaning : i \in DOMAIN load_questions}
        \cup {NoneStr}

---------------------------------------------------------------------------
(* dict *)

DictKeys(d) == {d[i].key : i \in DOMAIN d}

DictHas(d, k) == k \in DictKeys(d)

DictGet(d, k) == d[CHOOSE i \in DOMAIN d : d[i].key = k].val

\* d[k] = v: an existing key keeps its place, a new key goes last
DictSet(d, k, v) ==
    IF DictHas(d, k)
    THEN [i \in DOMAIN d |-> IF d[i].key = k THEN [key |-> k, val |-> v] ELSE d[i]]
    ELSE Append(d, [key |-> k, val |-> v])

\* del d[k]
DictDel(d, k) ==
    LET keep(e) == e.key # k IN SelectSeq(d, keep)

\* the dict with every value replaced by v
DictFill(d, v) == [i \in DOMAIN d |-> [key |-> d[i].key, val |-> v]]

---------------------------------------------------------------------------
(* broadcast *)

\* broadcast(message, game_id, exclude): the message and the websockets
\* that websocket.send is called on
broadcast(message, game, exclude) ==
    [msg |-> message,
     to  |-> {game.players[i].val.websocket : i \in
                 {j \in DOMAIN game.players :
                     /\ game.players[j].val.websocket \notin exclude
                     /\ game.players[j].val.websocket \notin closed}}]

RECURSIVE fan_out(_, _, _, _)

fan_out_aborts(players, n, exclude, failing) ==
    IF n = 0 THEN <<>>
    ELSE LET before == fan_out(players, n - 1, exclude, failing)
             websocket == players[n].val.websocket
         IN  IF \E i \in DOMAIN before : before[i].raised
             THEN before
             ELSE IF websocket \notin exclude /\ websocket \notin closed
             THEN Append(before, [to |-> websocket, raised |-> websocket \in failing])
             ELSE before

\* the for loop of broadcast over the first n items of players: the calls of
\* websocket.send it makes, in order, and whether each raised; `failing` are
\* the websockets whose send raises, and the except clause passes
fan_out(players, n, exclude, failing) ==
    IF n = 0 THEN <<>>
    ELSE LET before == fan_out(players, n - 1, exclude, failing)
             websocket == players[n].val.websocket
         IN  IF websocket \notin exclude /\ websocket \notin closed
             THEN Append(before, [to |-> websocket, raised |-> websocket \in failing])
             ELSE before

broadcast_game_state(game) ==
    broadcast([type |-> "game_state",
               players |-> [i \in DOMAIN game.players |->
                              [key |-> game.players[i].key,
                               val |-> [ready |-> game.players[i].val.ready]]],
               scores |-> game.scores,
               game_state |-> game.state,
               host |-> game.host],
              game, {})

---------------------------------------------------------------------------
(* The game session.  Each operator returns the game after the call, the   *)
(* broadcasts the call made (in order) and the number of question_timeout  *)
(* tasks it created.                                                        *)

\* the record a first connection stores in self.games[game_id]
new_game(player_name) ==
    [players |-> <<>>,
     state |-> "lobby",
     host |-> player_name,
     current_question |-> None,
     scores |-> <<>>,
     question_index |-> 0,
     questions |-> load_questions]

\* handle_connection, "Add player to game"
add_player(game, player_name, websocket) ==
    [game EXCEPT
        !.players = DictSet(@, player_name, [websocket |-> websocket, ready |-> FALSE]),
        !.scores = DictSet(@, player_name, 0)]

remove_player_keeps_score(game, player_name) ==
    [game EXCEPT !.players = DictDel(@, player_name)]

\* handle_disconnect: del game['players'][..]; del game['scores'][..]
remove_player(game, player_name) ==
    [game EXCEPT !.players = DictDel(@, player_name),
                 !.scores = DictDel(@, player_name)]

RECURSIVE MaxItem(_, _)

max_item_last(items, n) ==
    IF n = 1 THEN items[1]
    ELSE LET best == MaxItem(items, n - 1)
         IN  IF items[n].val >= best.val THEN items[n] ELSE best

\* max(scores.items(), key=lambda x: x[1]) over the first n items: the
\* first item whose value is largest
MaxItem(items, n) ==
    IF n = 1 THEN items[1]
    ELSE LET best == MaxItem(items, n - 1)
         IN  IF items[n].val > best.val THEN items[n] ELSE best

winner(scores) ==
    IF scores # <<>> THEN MaxItem(scores, Len(scores)).key ELSE NoneStr

end_game_counts(game) ==
    LET g1 == [game EXCEPT !.state = "finished", !.question_index = @ + 1]
    IN  [game |-> g1,
         out |-> << broadcast([type |-> "game_over",
                               scores |-> g1.scores,
                               winner |-> winner(g1.scores)], g1, {}) >>,
         spawn |-> 0]

end_game(game) ==
    LET g1 == [game EXCEPT !.state = "finished"]
    IN  [game |-> g1,
         out |-> << broadcast([type |-> "game_over",
                               scores |-> g1.scores,
                               winner |-> winner(g1.scores)], g1, {}) >>,
         spawn |-> 0]

choices_two_distractors(question) ==
    <<question.meaning>> \o SubSeq(question.distractors, 1, 2)

\* [question['meaning']] + question['distractors'][:3]
Choices(question) ==
    <<question.meaning>> \o
        SubSeq(question.distractors, 1,
               IF Len(question.distractors) < 3 THEN Len(question.distractors) ELSE 3)

\* random.shuffle(choices): `shuffle` is the permutation the generator drew
Shuffled(choices, shuffle) == [i \in DOMAIN choices |-> choices[shuffle[i]]]

\* the outcomes of the shuffle that a call of next_question may draw (none
\* is drawn when the bank is exhausted)
Shuffles(game) ==
    IF game.question_index >= Len(game.questions)
    THEN {<<>>}
    ELSE Permutations(DOMAIN Choices(game.questions[game.question_index + 1]))

next_question_repeats(game, shuffle) ==
    IF game.question_index >= Len(game.questions)
    THEN end_game(game)
    ELSE LET question == game.questions[game.question_index + 1]
             g1 == [game EXCEPT !.current_question = question]
         IN  [game |-> g1,
              out |-> << broadcast([type |-> "new_question",
                                    term |-> question.term,
                                    choices |-> Shuffled(Choices(question), shuffle),
                                    time_limit |-> time_limit,
                                    question_number |-> g1.question_index + 1],
                                   g1, {}) >>,
              spawn |-> 1]

next_question(game, shuffle) ==
    IF game.question_index >= Len(game.questions)
    THEN end_game(game)
    ELSE LET question == game.questions[game.question_index + 1]
             g1 == [game EXCEPT !.current_question = question,
                                !.question_index = @ + 1]
         IN  [game |-> g1,
              out |-> << broadcast([type |-> "new_question",
                                    term |-> question.term,
                                    choices |-> Shuffled(Choices(question), shuffle),
                                    time_limit |-> time_limit,
                                    question_number |-> g1.question_index],
                                   g1, {}) >>,
              spawn |-> 1]

start_game_keeps_scores(game, shuffle) ==
    next_question([game EXCEPT !.state = "playing", !.question_index = 0], shuffle)

start_game(game, shuffle) ==
    next_question([game EXCEPT !.state = "playing",
                               !.question_index = 0,
                               !.scores = DictFill(@, 0)],
                  shuffle)

reset_game_keeps_scores(game) ==
    LET g1 == [game EXCEPT !.state = "lobby",
                           !.current_question = None,
                           !.question_index = 0]
    IN  [game |-> g1, out |-> <<broadcast_game_state(g1)>>, spawn |-> 0]

reset_game(game) ==
    LET g1 == [game EXCEPT !.state = "lobby",
                           !.current_question = None,
                           !.question_index = 0,
                           !.scores = DictFill(@, 0)]
    IN  [game |-> g1, out |-> <<broadcast_game_state(g1)>>, spawn |-> 0]

timeout_guard_never(game) == FALSE

\* question_timeout, the condition tested when sleep(20) returns
timeout_guard(game) ==
    game.state = "playing" /\ game.current_question # None

\* question_timeout, the broadcast made when the condition holds
timeout_result(game) ==
    broadcast([type |-> "answer_result",
               player |-> "System",
               correct |-> FALSE,
               correct_answer |-> game.current_question.meaning], game, {})

is_correct(answer, question) == answer = question.meaning

\* game['scores'][player_name] += 10 raises KeyError for a name that is
\* not a key of scores
answer_raises(game, player_name, answer) ==
    /\ is_correct(answer, game.current_question)
    /\ ~DictHas(game.scores, player_name)

score_answer(game, player_name, answer) ==
    IF is_correct(answer, game.current_question)
    THEN [game EXCEPT !.scores =
             DictSet(@, player_name, DictGet(@, player_name) + points)]
    ELSE game

\* handle_answer up to its sleep(3); `sleeps` says whether it reaches it.
\* It returns early without a current question, and it is left by the
\* KeyError (which handle_message catches) before any broadcast.
handle_answer(game, player_name, answer) ==
    IF game.current_question = None
    THEN [game |-> game, out |-> <<>>, sleeps |-> FALSE]
    ELSE IF answer_raises(game, player_name, answer)
    THEN [game |-> game, out |-> <<>>, sleeps |-> FALSE]
    ELSE LET g1 == score_answer(game, player_name, answer)
         IN  [game |-> g1,
              out |-> << broadcast([type |-> "answer_result",
                                    player |-> player_name,
                                    correct |-> is_correct(answer, game.current_question),
                                    correct_answer |-> game.current_question.meaning],
                                   g1, {}) >>,
              sleeps |-> TRUE]

\* handle_message, action == 'join'; the KeyError for a name that is not a
\* key of players is caught by handle_message
handle_join(game, player_name) ==
    IF ~DictHas(game.players, player_name)
    THEN [game |-> game, out |-> <<>>]
    ELSE LET g1 == [game EXCEPT !.players =
                       DictSet(@, player_name,
                               [DictGet(@, player_name) EXCEPT !.ready = TRUE])]
         IN  [game |-> g1, out |-> <<broadcast_game_state(g1)>>]

is_host_anyone(game, player_name) == player_name \in DictKeys(game.players)

\* handle_message, the test made for start_game and play_again
is_host(game, player_name) == player_name = game.host

\* handle_disconnect, for a websocket registered as (game, player_name)
handle_disconnect(game, player_name, websocket) ==
    IF DictHas(game.players, player_name)
    THEN LET g1 == remove_player(game, player_name)
         IN  [game |-> g1,
              out |-> << broadcast([type |-> "player_left",
                                    player_name |-> player_name], g1, {websocket}),
                         broadcast_game_state(g1) >>]
    ELSE [game |-> game, out |-> <<>>]

---------------------------------------------------------------------------
(* Coroutines *)

\* a handle_connection coroutine: not yet called ("new"), waiting for the
\* next message ("loop"), in handle_answer's sleep(3) ("grace"), returned
\* ("done"); game_id and player_name are its local variables
Handler(pc, game_id, player_name) ==
    [pc |-> pc, game_id |-> game_id, player_name |-> player_name]

\* a sleeping coroutine: a question_timeout task in its sleep(20) ("timeout")
\* or in its sleep(3) ("timeout_grace"), or the handler of websocket ws in
\* handle_answer's sleep(3) ("answer_grace").
\* History field moved: what has ended the round the sleep began in: "no"
\* while that round lasts, "answer" or "timeout" for the advance made for an
\* answer or a timeout of that same round, "other" for anything else (the
\* host's start or reset, the advance of a continuation of an earlier round).
Sleeper(g, kind, ws, moved) == [game |-> g, kind |-> kind, ws |-> ws, moved |-> moved]

delay(kind) == IF kind = "timeout" THEN time_limit ELSE grace_delay

\* the event loop wakes sleeper i next only if no sleeper that went to sleep
\* before it, for a time no longer than its own, is still asleep
MayWake(i) ==
    \A j \in 1..(i - 1) : delay(sleeping[j].kind) > delay(sleeping[i].kind)

Remove(seq, i) == SubSeq(seq, 1, i - 1) \o SubSeq(seq, i + 1, Len(seq))

\* the round of game g ends (a question is loaded, the game ends or is
\* reset): every sleeper of g went to sleep in an earlier round
EndRound(seq, g, by) ==
    [i \in DOMAIN seq |->
        IF seq[i].game = g /\ seq[i].moved = "no"
        THEN [seq[i] EXCEPT !.moved = by] ELSE seq[i]]

\* asyncio.create_task(self.question_timeout(game_id)), n times
NewTimers(g, n) == IF n = 1 THEN <<Sleeper(g, "timeout", 0, "no")>> ELSE <<>>

\* an answer has been accepted for the round of game g that is going on: the
\* coroutine that took it is in its sleep(3) and the round has not ended
Answered(g) ==
    \E i \in DOMAIN sleeping :
        /\ sleeping[i].game = g
        /\ sleeping[i].kind = "answer_grace"
        /\ sleeping[i].moved = "no"

Scored(g) ==
    /\ g \in DOMAIN games
    /\ \E i \in DOMAIN games[g].scores : games[g].scores[i].val # 0

\* what the history keeps of a step's broadcasts: each message as sent and
\* the websockets it was sent on, but of the choices of a new_question only
\* which strings they are; their order is looked at under SpecChoices
Logged(b) ==
    IF b.msg.type = "new_question"
    THEN [b EXCEPT !.msg.choices = {@[i] : i \in DOMAIN @}]
    ELSE b

Log(sent) == [i \in DOMAIN sent |-> Logged(sent[i])]

\* the step taken, with what the state before it was like
Ev(kind, ws, g, name, answer, moved) ==
    [kind |-> kind, ws |-> ws, game |-> g, name |-> name, answer |-> answer,
     moved |-> moved, answered |-> Answered(g), scored |-> Scored(g)]

SetGame(g, game) == (g :> game) @@ games

Init ==
    /\ games = <<>>
    /\ connections = <<>>
    /\ closed = {}
    /\ handler = [ws \in Sockets |-> Handler("new", "", "")]
    /\ sleeping = <<>>
    /\ ev = Ev("init", 0, "", "", NoneStr, "no")
    /\ out = <<>>

\* the websocket objects are taken in order
NextSocket(ws) ==
    /\ handler[ws].pc = "new"
    /\ \A w \in Sockets : w < ws => handler[w].pc # "new"

\* and so are the names: a connection uses a name used before or the first
\* name not used yet
NextName(p) ==
    \E i \in DOMAIN NameOrder :
        /\ NameOrder[i] = p
        /\ \A j \in 1..(i - 1) :
              \E w \in Sockets : handler[w].player_name = NameOrder[j]

\* handle_connection up to the message loop, for the path /x/<g>/<p>
Connect(ws, g, p) ==
    /\ NextSocket(ws)
    /\ NextName(p)
    /\ LET g1 == add_player(IF g \in DOMAIN games THEN games[g] ELSE new_game(p), p, ws)
       IN  /\ games' = SetGame(g, g1)
           /\ out' = Log(<<broadcast_game_state(g1)>>)
    /\ connections' = (ws :> <<g, p>>) @@ connections
    /\ handler' = [handler EXCEPT ![ws] = Handler("loop", g, p)]
    /\ ev' = Ev("connect", ws, g, p, NoneStr, "no")
    /\ UNCHANGED <<closed, sleeping>>

\* handle_connection for a path with fewer than 4 parts: close, return,
\* and the finally clause finds the websocket in no registry
Reject(ws) ==
    /\ NextSocket(ws)
    /\ closed' = closed \cup {ws}
    /\ handler' = [handler EXCEPT ![ws] = Handler("done", "", "")]
    /\ ev' = Ev("reject", ws, "", "", NoneStr, "no")
    /\ out' = <<>>
    /\ UNCHANGED <<games, connections, sleeping>>

\* the peer closes the connection, or the transport fails
Close(ws) ==
    /\ handler[ws].pc \in {"loop", "grace"}
    /\ ws \notin closed
    /\ closed' = closed \cup {ws}
    /\ ev' = Ev("close", ws, handler[ws].game_id, handler[ws].player_name, NoneStr, "no")
    /\ out' = <<>>
    /\ UNCHANGED <<games, connections, handler, sleeping>>

Disconnect_in_loop(ws) ==
    /\ handler[ws].pc = "loop"
    /\ ws \in closed
    /\ IF ws \in DOMAIN connections
       THEN LET g == connections[ws][1]
                p == connections[ws][2]
                r == handle_disconnect(games[g], p, ws)
            IN  /\ games' = SetGame(g, r.game)
                /\ out' = Log(r.out)
                /\ connections' = [w \in DOMAIN connections \ {ws} |-> connections[w]]
       ELSE /\ out' = <<>>
            /\ UNCHANGED <<games, connections>>
    /\ ev' = Ev("disconnect", ws, handler[ws].game_id, handler[ws].player_name,
                NoneStr, "no")
    /\ UNCHANGED <<closed, sleeping, handler>>

\* the message loop ends on the closed connection; finally: handle_disconnect
Disconnect(ws) ==
    /\ handler[ws].pc = "loop"
    /\ ws \in closed
    /\ IF ws \in DOMAIN connections
       THEN LET g == connections[ws][1]
                p == connections[ws][2]
                r == handle_disconnect(games[g], p, ws)
            IN  /\ games' = SetGame(g, r.game)
                /\ out' = Log(r.out)
                /\ connections' = [w \in DOMAIN connections \ {ws} |-> connections[w]]
       ELSE /\ out' = <<>>
            /\ UNCHANGED <<games, connections>>
    /\ handler' = [handler EXCEPT ![ws].pc = "done"]
    /\ ev' = Ev("disconnect", ws, handler[ws].game_id, handler[ws].player_name,
                NoneStr, "no")
    /\ UNCHANGED <<closed, sleeping>>

---------------------------------------------------------------------------
(* handle_message, one action per kind of message.  A message is handled   *)
(* when the connection's coroutine waits in its loop.  Close(ws) stands    *)
(* for the moment the connection is closed and its last frame has been     *)
(* handled, so no message of ws follows it.                                *)

Receives(ws) == handler[ws].pc = "loop" /\ ws \notin closed

\* {"action": "join"}
Join(ws) ==
    /\ Receives(ws)
    /\ LET g == handler[ws].game_id
           p == handler[ws].player_name
           r == handle_join(games[g], p)
       IN  /\ games' = SetGame(g, r.game)
           /\ out' = Log(r.out)
           /\ ev' = Ev("join", ws, g, p, NoneStr, "no")
    /\ UNCHANGED <<connections, closed, handler, sleeping>>

\* {"action": "start_game"}
StartGame(ws) ==
    /\ Receives(ws)
    /\ LET g == handler[ws].game_id
           p == handler[ws].player_name
       IN  /\ ev' = Ev("start_game", ws, g, p, NoneStr, "no")
           /\ IF is_host(games[g], p)
              THEN /\ Len(sleeping) < MaxTasks
                   /\ \E shuffle \in Shuffles([games[g] EXCEPT !.question_index = 0]) :
                        LET r == start_game(games[g], shuffle)
                        IN  /\ games' = SetGame(g, r.game)
                            /\ out' = Log(r.out)
                            /\ sleeping' = EndRound(sleeping, g, "other")
                                               \o NewTimers(g, r.spawn)
              ELSE /\ out' = <<>>
                   /\ UNCHANGED <<games, sleeping>>
    /\ UNCHANGED <<connections, closed, handler>>

\* {"action": "submit_answer", "answer": answer}: handle_answer up to its
\* sleep(3), where the coroutine is suspended
SubmitAnswer(ws, answer) ==
    /\ Receives(ws)
    /\ LET g == handler[ws].game_id
           p == handler[ws].player_name
           r == handle_answer(games[g], p, answer)
       IN  /\ r.sleeps => Len(sleeping) < MaxTasks
           /\ r.game # games[g] => DictGet(games[g].scores, p) < points * MaxCorrect
           /\ games' = SetGame(g, r.game)
           /\ out' = Log(r.out)
           /\ handler' = IF r.sleeps THEN [handler EXCEPT ![ws].pc = "grace"] ELSE handler
           /\ sleeping' = IF r.sleeps
                          THEN Append(sleeping, Sleeper(g, "answer_grace", ws, "no"))
                          ELSE sleeping
           /\ ev' = Ev("submit_answer", ws, g, p, answer, "no")
    /\ UNCHANGED <<connections, closed>>

\* {"action": "play_again"}
PlayAgain(ws) ==
    /\ Receives(ws)
    /\ LET g == handler[ws].game_id
           p == handler[ws].player_name
       IN  /\ ev' = Ev("play_again", ws, g, p, NoneStr, "no")
           /\ IF is_host(games[g], p)
              THEN LET r == reset_game(games[g])
                   IN  /\ games' = SetGame(g, r.game)
                       /\ out' = Log(r.out)
                       /\ sleeping' = EndRound(sleeping, g, "other")
              ELSE /\ out' = <<>>
                   /\ UNCHANGED <<games, sleeping>>
    /\ UNCHANGED <<connections, closed, handler>>

BadMessage_closes(ws) ==
    /\ Receives(ws)
    /\ ev' = Ev("bad_message", ws, handler[ws].game_id, handler[ws].player_name,
                NoneStr, "no")
    /\ out' = <<>>
    /\ closed' = closed \cup {ws}
    /\ UNCHANGED <<games, connections, handler, sleeping>>

\* a payload json.loads rejects, a payload that is no object, or an object
\* whose action is none of the four: nothing is done
BadMessage(ws) ==
    /\ Receives(ws)
    /\ ev' = Ev("bad_message", ws, handler[ws].game_id, handler[ws].player_name,
                NoneStr, "no")
    /\ out' = <<>>
    /\ UNCHANGED <<games, connections, closed, handler, sleeping>>

---------------------------------------------------------------------------
(* The continuations of the sleeps *)

\* what ends the round when sleeper s advances it
EndedBy(s) ==
    IF s.moved # "no" THEN "other"
    ELSE IF s.kind = "answer_grace" THEN "answer" ELSE "timeout"

\* handle_answer after its sleep(3): next_question, then back to the loop
AnswerAdvance(i) ==
    /\ i \in DOMAIN sleeping
    /\ sleeping[i].kind = "answer_grace"
    /\ MayWake(i)
    /\ LET s == sleeping[i]
           g == s.game
       IN  /\ \E shuffle \in Shuffles(games[g]) :
                LET r == next_question(games[g], shuffle)
                IN  /\ games' = SetGame(g, r.game)
                    /\ out' = Log(r.out)
                    /\ sleeping' = EndRound(Remove(sleeping, i), g, EndedBy(s))
                                       \o NewTimers(g, r.spawn)
           /\ handler' = [handler EXCEPT ![s.ws].pc = "loop"]
           /\ ev' = Ev("answer_advance", s.ws, g, handler[s.ws].player_name,
                       NoneStr, s.moved)
    /\ UNCHANGED <<connections, closed>>

\* question_timeout when its sleep(20) returns: the test, and the "System"
\* answer_result up to the sleep(3)
TimeoutFire(i) ==
    /\ i \in DOMAIN sleeping
    /\ sleeping[i].kind = "timeout"
    /\ MayWake(i)
    /\ LET s == sleeping[i]
           g == s.game
       IN  /\ IF timeout_guard(games[g])
              THEN /\ out' = Log(<<timeout_result(games[g])>>)
                   /\ sleeping' = Append(Remove(sleeping, i),
                                         Sleeper(g, "timeout_grace", 0, "no"))
              ELSE /\ out' = <<>>
                   /\ sleeping' = Remove(sleeping, i)
           /\ ev' = Ev("timeout_fire", 0, g, "System", NoneStr, s.moved)
    /\ UNCHANGED <<games, connections, closed, handler>>

\* question_timeout after its sleep(3): next_question
TimeoutAdvance(i) ==
    /\ i \in DOMAIN sleeping
    /\ sleeping[i].kind = "timeout_grace"
    /\ MayWake(i)
    /\ LET s == sleeping[i]
           g == s.game
       IN  /\ \E shuffle \in Shuffles(games[g]) :
                LET r == next_question(games[g], shuffle)
                IN  /\ games' = SetGame(g, r.game)
                    /\ out' = Log(r.out)
                    /\ sleeping' = EndRound(Remove(sleeping, i), g, EndedBy(s))
                                       \o NewTimers(g, r.spawn)
           /\ ev' = Ev("timeout_advance", 0, g, "System", NoneStr, s.moved)
    /\ UNCHANGED <<connections, closed, handler>>

Next ==
    \/ \E ws \in Sockets, g \in GameIds, p \in Names : Connect(ws, g, p)
    \/ \E ws \in Sockets : Reject(ws)
    \/ \E ws \in Sockets : Close(ws)
    \/ \E ws \in Sockets : Disconnect(ws)
    \/ \E ws \in Sockets : Join(ws)
    \/ \E ws \in Sockets : StartGame(ws)
    \/ \E ws \in Sockets, answer \in Answers : SubmitAnswer(ws, answer)
    \/ \E ws \in Sockets : PlayAgain(ws)
    \/ \E ws \in Sockets : BadMessage(ws)
    \/ \E i \in 1..MaxTasks : AnswerAdvance(i)
    \/ \E i \in 1..MaxTasks : TimeoutFire(i)
    \/ \E i \in 1..MaxTasks : TimeoutAdvance(i)

Spec == Init /\ [][Next]_vars

\* the event loop: a sleep that is due returns, and the coroutine runs on
Fairness ==
    /\ WF_vars(\E i \in 1..MaxTasks : AnswerAdvance(i))
    /\ WF_vars(\E i \in 1..MaxTasks : TimeoutFire(i))
    /\ WF_vars(\E i \in 1..MaxTasks : TimeoutAdvance(i))

\* the steps that bear on the progress of a session: the messages that only
\* set a ready flag or are ignored, and the rejected connections, are left out
NextLive ==
    \/ \E ws \in Sockets, g \in GameIds, p \in Names : Connect(ws, g, p)
    \/ \E ws \in Sockets : Close(ws)
    \/ \E ws \in Sockets : Disconnect(ws)
    \/ \E ws \in Sockets : StartGame(ws)
    \/ \E ws \in Sockets, answer \in Answers : SubmitAnswer(ws, answer)
    \/ \E ws \in Sockets : PlayAgain(ws)
    \/ \E i \in 1..MaxTasks : AnswerAdvance(i)
    \/ \E i \in 1..MaxTasks : TimeoutFire(i)
    \/ \E i \in 1..MaxTasks : TimeoutAdvance(i)

SpecLive == Init /\ [][NextLive]_vars /\ Fairness

---------------------------------------------------------------------------
(* next_question on its own: a session at any point of the bank, and every *)
(* outcome of the shuffle, with the messages kept in `out` as sent.        *)

InitChoices ==
    /\ \E n \in 0..Len(load_questions), ready \in BOOLEAN, names \in {<<"a">>, <<"a", "b">>} :
          games = [g \in GameIds |->
                     [new_game("a") EXCEPT
                        !.players = [i \in DOMAIN names |->
                                       [key |-> names[i],
                                        val |-> [websocket |-> i, ready |-> ready]]],
                        !.scores = [i \in DOMAIN names |-> [key |-> names[i], val |-> 0]],
                        !.state = "playing",
                        !.question_index = n,
                        !.current_question =
                            IF n = 0 THEN None ELSE load_questions[n]]]
    /\ connections = <<>>
    /\ closed = {}
    /\ handler = [ws \in Sockets |-> Handler("new", "", "")]
    /\ sleeping = <<>>
    /\ ev = Ev("init", 0, "", "", NoneStr, "no")
    /\ out = <<>>

NextQuestion(g) ==
    /\ games[g].state = "playing"
    /\ \E shuffle \in Shuffles(games[g]) :
          LET r == next_question(games[g], shuffle)
          IN  /\ games' = SetGame(g, r.game)
              /\ out' = r.out
    /\ ev' = Ev("next_question", 0, g, "", NoneStr, "no")
    /\ UNCHANGED <<connections, closed, handler, sleeping>>

NextChoices == \E g \in GameIds : NextQuestion(g)

SpecChoices == InitChoices /\ [][NextChoices]_vars

---------------------------------------------------------------------------
(* broadcast on its own: a session of up to MaxPlayers players, any of     *)
(* their connections closed, and any of the others failing in send.        *)

RosterNames == <<"a", "b", "c", "d", "e">>

\* the players maps of n players: each name has a websocket of its own
Rosters(n) ==
    {ws \in [1..n -> 1..MaxPlayers] : \A i, j \in 1..n : ws[i] = ws[j] => i = j}

InitBroadcast ==
    /\ \E n \in 0..MaxPlayers : \E ws \in Rosters(n) :
          games = [g \in GameIds |->
                     [new_game("a") EXCEPT
                        !.players = [i \in 1..n |->
                                       [key |-> RosterNames[i],
                                        val |-> [websocket |-> ws[i], ready |-> FALSE]]],
                        !.scores = [i \in 1..n |-> [key |-> RosterNames[i], val |-> 0]]]]
    /\ closed \in SUBSET (1..MaxPlayers)
    /\ connections = <<>>
    /\ handler = [ws \in Sockets |-> Handler("new", "", "")]
    /\ sleeping = <<>>
    /\ ev = Ev("init", 0, "", "", NoneStr, "no")
    /\ out = <<>>

\* one call of broadcast, as handle_disconnect makes it for websocket w
\* (exclude=[w]) or as every other caller does (no exclude); the history
\* keeps the sends of the loop next to the message
Broadcast(g, exclude, failing) ==
    /\ LET message == [type |-> "player_left", player_name |-> "x"]
           b == broadcast(message, games[g], exclude)
       IN  out' = << [msg |-> b.msg, to |-> b.to,
                      sends |-> fan_out(games[g].players, Len(games[g].players),
                                        exclude, failing)] >>
    /\ ev' = [kind |-> "broadcast", game |-> g, exclude |-> exclude, failing |-> failing]
    /\ UNCHANGED <<games, connections, closed, handler, sleeping>>

NextBroadcast ==
    \E g \in GameIds, failing \in SUBSET (1..MaxPlayers),
       exclude \in {{}} \cup {{w} : w \in 1..MaxPlayers} :
        Broadcast(g, exclude, failing)

SpecBroadcast == InitBroadcast /\ [][NextBroadcast]_vars

---------------------------------------------------------------------------
(* Properties *)

Advances == {"answer_advance", "timeout_advance"}

\* the websockets of the players of a game
PlayerSockets(game) == {game.players[i].val.websocket : i \in DOMAIN game.players}

\* C1: in every reachable state the players map and the scores map of every
\* session have the same set of names.
C1_PlayersMatchScores ==
    \A g \in DOMAIN games : DictKeys(games[g].players) = DictKeys(games[g].scores)

\* a connection has just disconnected while another connection that joined
\* the same game under the same name is still registered
C1_Witness ==
    /\ ev.kind = "disconnect"
    /\ \E w \in DOMAIN connections : connections[w] = <<ev.game, ev.name>>

\* C2: when an answer and the timeout of the same round are both triggered,
\* the round is advanced once: the continuation of the later one finds the
\* round already advanced by the other and does nothing (no change of the
\* question index or of the current question, no broadcast).
C2_OneAdvancePerRound ==
    [][((ev'.kind = "answer_advance" /\ ev'.moved = "timeout")
          \/ (ev'.kind = "timeout_advance" /\ ev'.moved = "answer"))
        => /\ games'[ev'.game].question_index = games[ev'.game].question_index
           /\ games'[ev'.game].current_question = games[ev'.game].current_question
           /\ out' = <<>>]_vars

\* C3: a timeout task whose round has ended before its sleep(20) returns
\* broadcasts nothing (and so starts no advance).
C3_StaleTimeoutIsNoop ==
    (ev.kind = "timeout_fire" /\ ev.moved # "no") => out = <<>>

\* C4: once an answer has been accepted for the round, a later submit_answer
\* that arrives before the next question changes no score and is answered by
\* no answer_result.
C4_OnlyFirstAnswerScored ==
    [][(ev'.kind = "submit_answer" /\ ev'.answered)
        => /\ games'[ev'.game].scores = games[ev'.game].scores
           /\ out' = <<>>]_vars

\* C5: with a question active, a submit_answer of player p that equals the
\* question's meaning adds exactly 10 to p's score and changes no other
\* score; any other answer changes no score.
C5_ExactMatchScoresTen ==
    [][(ev'.kind = "submit_answer" /\ games[ev'.game].current_question # None)
        => LET before == games[ev'.game].scores
               after == games'[ev'.game].scores
           IN  IF ev'.answer = games[ev'.game].current_question.meaning
               THEN /\ DictHas(before, ev'.name)
                    /\ DOMAIN after = DOMAIN before
                    /\ \A i \in DOMAIN before :
                          /\ after[i].key = before[i].key
                          /\ after[i].val = IF before[i].key = ev'.name
                                            THEN before[i].val + 10
                                            ELSE before[i].val
               ELSE after = before]_vars

\* C6: after a start_game of the host the session is playing, every score
\* is 0, the current question is the first item of the bank and the one
\* broadcast made is a new_question with question_number 1.
C6_StartResets ==
    (ev.kind = "start_game" /\ ev.name = games[ev.game].host)
        => LET game == games[ev.game]
           IN  /\ game.state = "playing"
               /\ \A i \in DOMAIN game.scores : game.scores[i].val = 0
               /\ game.current_question = load_questions[1]
               /\ Len(out) = 1
               /\ out[1].msg.type = "new_question"
               /\ out[1].msg.question_number = 1

\* the host has just started a game in which some score was not 0
C6_Witness ==
    /\ ev.kind = "start_game"
    /\ ev.name = games[ev.game].host
    /\ ev.scored

\* C7: an advance made with the question index at the length of the bank
\* sets the state to finished, loads no question, and broadcasts a
\* game_over whose winner is the first player, in the order of the scores
\* map, whose score is the largest, or None when there is no player.
C7_EndOfBank ==
    [][(ev'.kind \in Advances
          /\ games[ev'.game].question_index = Len(games[ev'.game].questions))
        => LET game == games'[ev'.game]
               scores == game.scores
           IN  /\ game.state = "finished"
               /\ game.question_index = games[ev'.game].question_index
               /\ game.current_question = games[ev'.game].current_question
               /\ Len(out') = 1
               /\ out'[1].msg.type = "game_over"
               /\ IF scores = <<>>
                  THEN out'[1].msg.winner = NoneStr
                  ELSE \E i \in DOMAIN scores :
                          /\ out'[1].msg.winner = scores[i].key
                          /\ \A j \in DOMAIN scores : scores[j].val <= scores[i].val
                          /\ \A j \in 1..(i - 1) : scores[j].val < scores[i].val]_vars

\* a game has just ended with two players who share the top score of 10
C7_Witness ==
    /\ ev.kind \in Advances
    /\ Len(out) = 1
    /\ out[1].msg.type = "game_over"
    /\ Len(games[ev.game].scores) = 2
    /\ games[ev.game].scores[1].val = 10
    /\ games[ev.game].scores[2].val = 10

\* C8: the choices of every new_question are 4 strings, a permutation of
\* the item's meaning and its first 3 distractors, with the meaning among
\* them exactly once.
C8_ChoicesArePermutation ==
    \A k \in DOMAIN out :
        out[k].msg.type = "new_question" =>
            LET choices == out[k].msg.choices
                item == CHOOSE q \in {load_questions[n] : n \in DOMAIN load_questions} :
                            q.term = out[k].msg.term
                expected == <<item.meaning, item.distractors[1],
                              item.distractors[2], item.distractors[3]>>
            IN  /\ Len(choices) = 4
                /\ Cardinality({i \in DOMAIN choices : choices[i] = item.meaning}) = 1
                /\ \E f \in Permutations(1..4) :
                      \A i \in 1..4 : choices[i] = expected[f[i]]

\* the last item of the bank has been sent with its meaning as last choice
C8_Witness ==
    /\ Len(out) = 1
    /\ out[1].msg.type = "new_question"
    /\ out[1].msg.term = "howzit"
    /\ out[1].msg.choices[4] = "hello; how are you?"

\* C9: after the cleanup of a registered connection of (g, p), p is a key
\* of neither players nor scores of g, the connection is in no registry
\* entry, and the cleanup has broadcast a player_left naming p to every
\* remaining player (whose connection is open) and then a game_state.
C9_DisconnectNotifies ==
    ev.kind = "disconnect"
        => LET game == games[ev.game]
           IN  /\ ~DictHas(game.players, ev.name)
               /\ ~DictHas(game.scores, ev.name)
               /\ ev.ws \notin DOMAIN connections
               /\ Len(out) = 2
               /\ out[1].msg = [type |-> "player_left", player_name |-> ev.name]
               /\ PlayerSockets(game) \ closed \subseteq out[1].to
               /\ out[2].msg.type = "game_state"

\* C10: a start_game or play_again of a player who is not the host changes
\* nothing of the session, wakes or creates no task and broadcasts nothing.
C10_NonHostIgnored ==
    [][(ev'.kind \in {"start_game", "play_again"}
          /\ ev'.name # games[ev'.game].host)
        => /\ games' = games
           /\ sleeping' = sleeping
           /\ out' = <<>>]_vars

\* a player who is not the host has just sent start_game to a session in
\* the lobby, or play_again to a finished session that holds some score
C10_Witness ==
    /\ ev.kind \in {"start_game", "play_again"}
    /\ ev.name # games[ev.game].host
    /\ \/ ev.kind = "start_game" /\ games[ev.game].state = "lobby"
       \/ ev.kind = "play_again" /\ games[ev.game].state = "finished" /\ ev.scored

\* C11: the state of a session changes only from lobby to playing by a
\* start_game of the host, from playing to finished by an advance made with
\* the bank exhausted, and from finished to lobby by a play_again of the
\* host; a start_game of the host outside lobby, and a play_again of the
\* host outside finished, change neither the state nor the round progress.
C11_LifecycleTransitions ==
    [][\A g \in DOMAIN games :
         LET old == games[g]
             new == games'[g]
             host_sends(k) == ev'.kind = k /\ ev'.game = g /\ ev'.name = old.host
             same_progress == /\ new.state = old.state
                              /\ new.question_index = old.question_index
                              /\ new.current_question = old.current_question
         IN  /\ new.state # old.state =>
                  \/ /\ old.state = "lobby" /\ new.state = "playing"
                     /\ host_sends("start_game")
                  \/ /\ old.state = "playing" /\ new.state = "finished"
                     /\ ev'.kind \in Advances
                     /\ old.question_index = Len(old.questions)
                  \/ /\ old.state = "finished" /\ new.state = "lobby"
                     /\ host_sends("play_again")
             /\ (host_sends("start_game") /\ old.state # "lobby") => same_progress
             /\ (host_sends("play_again") /\ old.state # "finished") => same_progress]_vars

\* C12: in every reachable state the current question of a session is not
\* None if and only if the state of the session is playing.
C12_QuestionIffPlaying ==
    \A g \in DOMAIN games :
        (games[g].current_question # None) <=> (games[g].state = "playing")

\* C13: in every reachable state the question index of a session is between
\* 0 and the length of the bank, and every new_question broadcast carries a
\* question_number between 1 and the length of the bank.
C13_IndexWithinBank ==
    /\ \A g \in DOMAIN games :
          games[g].question_index \in 0..Len(games[g].questions)
    /\ \A k \in DOMAIN out :
          out[k].msg.type = "new_question"
              => out[k].msg.question_number \in 1..Len(load_questions)

\* a continuation whose round had already been advanced by the other
\* trigger of that round has just run with the bank exhausted
C13_Witness ==
    /\ ev.kind \in Advances
    /\ ev.moved \in {"answer", "timeout"}
    /\ games[ev.game].question_index = Len(games[ev.game].questions)
    /\ games[ev.game].state = "finished"

\* C14: while a session is finished no submit_answer changes a score, and
\* the scores change only by a start_game or play_again of the host or by
\* the removal of the entry of a player who disconnects (or the entry made
\* for a player who connects).
C14_ScoresFinalWhenFinished ==
    [][\A g \in DOMAIN games :
         (games[g].state = "finished" /\ games'[g].scores # games[g].scores)
             => /\ ev'.kind # "submit_answer"
                /\ \/ ev'.kind \in {"start_game", "play_again"}
                      /\ ev'.name = games[g].host
                   \/ ev'.kind \in {"disconnect", "connect"}]_vars

\* C15: the cleanup (handle_disconnect) runs exactly once for every
\* connection: a handler ends only by running it, whether the connection was
\* rejected or its message loop ended or raised, a handler that has ended
\* never runs again, and the cleanup of a registered connection removes its
\* registry entry; the cleanup of a rejected connection changes no session
\* and no registry entry and sends nothing.
C15_CleanupOnce ==
    [][/\ \A ws \in Sockets :
            LET cleanup == ev'.kind \in {"disconnect", "reject"} /\ ev'.ws = ws
            IN  /\ handler[ws].pc = "done" => (handler'[ws].pc = "done" /\ ~cleanup)
                /\ (handler[ws].pc # "done" /\ handler'[ws].pc = "done") => cleanup
                /\ cleanup => (handler'[ws].pc = "done" /\ ws \notin DOMAIN connections')
       /\ ev'.kind = "reject"
            => (games' = games /\ connections' = connections /\ out' = <<>>)]_vars

\* a connection has just been rejected while a session exists and another
\* connection is registered
C15_Witness ==
    /\ ev.kind = "reject"
    /\ games # <<>>
    /\ connections # <<>>

\* C16: a payload that cannot be parsed, or a message with an unknown
\* action, changes no session, sends nothing, and leaves the sender's
\* connection open, registered and waiting for its next message.
C16_BadMessageIgnored ==
    [][ev'.kind = "bad_message"
        => /\ games' = games
           /\ sleeping' = sleeping
           /\ out' = <<>>
           /\ connections' = connections
           /\ ev'.ws \in DOMAIN connections'
           /\ ev'.ws \notin closed'
           /\ handler'[ev'.ws].pc = "loop"]_vars

\* a bad message has just been received in a session that is playing, with
\* a continuation pending
C16_Witness ==
    /\ ev.kind = "bad_message"
    /\ games[ev.game].state = "playing"
    /\ sleeping # <<>>

\* C18: a connection that joins under a name already present in the session
\* replaces only the websocket stored for that name: the names, every score,
\* every ready flag, the host, the state and the round progress stay as
\* they were.
C18_RejoinIdempotent ==
    [][(/\ ev'.kind = "connect"
        /\ ev'.game \in DOMAIN games
        /\ DictHas(games[ev'.game].players, ev'.name))
        => LET old == games[ev'.game]
               new == games'[ev'.game]
           IN  /\ DOMAIN new.players = DOMAIN old.players
               /\ \A i \in DOMAIN old.players :
                     /\ new.players[i].key = old.players[i].key
                     /\ new.players[i].val.ready = old.players[i].val.ready
                     /\ new.players[i].val.websocket =
                           IF old.players[i].key = ev'.name
                           THEN ev'.ws ELSE old.players[i].val.websocket
               /\ new.scores = old.scores
               /\ new.host = old.host
               /\ new.state = old.state
               /\ new.question_index = old.question_index
               /\ new.current_question = old.current_question]_vars

\* C19: after a play_again of the host the state is lobby, the current
\* question is None, the question index is 0, every score is 0 and the
\* players map is what it was.
C19_PlayAgainResets ==
    [][(ev'.kind = "play_again" /\ ev'.name = games[ev'.game].host)
        => LET old == games[ev'.game]
               new == games'[ev'.game]
           IN  /\ new.state = "lobby"
               /\ new.current_question = None
               /\ new.question_index = 0
               /\ DOMAIN new.scores = DOMAIN old.scores
               /\ \A i \in DOMAIN old.scores :
                     /\ new.scores[i].key = old.scores[i].key
                     /\ new.scores[i].val = 0
               /\ new.players = old.players]_vars

\* the host has just sent play_again to a session of two players, one of
\* them ready, in which some score was not 0
C19_Witness ==
    /\ ev.kind = "play_again"
    /\ ev.name = games[ev.game].host
    /\ ev.scored
    /\ Len(games[ev.game].players) = 2
    /\ \E i \in DOMAIN games[ev.game].players : games[ev.game].players[i].val.ready

\* C17: in one call of broadcast, websocket.send is called exactly once on
\* the websocket of every player of the session that is neither excluded
\* nor closed, whichever of these sends raise, and on no other websocket.
C17_FanOutSurvivesFailure ==
    ev.kind = "broadcast"
        => LET sends == out[1].sends
               due == (PlayerSockets(games[ev.game]) \ ev.exclude) \ closed
           IN  /\ \A w \in 1..MaxPlayers :
                     Cardinality({i \in DOMAIN sends : sends[i].to = w})
                         = IF w \in due THEN 1 ELSE 0
               /\ \A i \in DOMAIN sends : sends[i].raised <=> sends[i].to \in ev.failing
               /\ out[1].to = due

\* a broadcast to three players whose first send raised and whose last send
\* went through
C17_Witness ==
    /\ ev.kind = "broadcast"
    /\ Len(out[1].sends) = 3
    /\ out[1].sends[1].raised
    /\ ~out[1].sends[3].raised

\* the host's start_game or play_again is the step that led to this state
HostCommand(g) ==
    /\ ev.kind \in {"start_game", "play_again"}
    /\ ev.game = g
    /\ ev.name = games[g].host

\* C20: a session that is playing becomes finished, unless the host sends a
\* further start_game or play_again, whether or not anybody answers and
\* whether or not the players stay connected, provided every sleep that is
\* due returns.
C20_PlayingLeadsToFinished ==
    \A g \in GameIds :
        (g \in DOMAIN games /\ games[g].state = "playing")
            ~> (g \in DOMAIN games /\ (games[g].state = "finished" \/ HostCommand(g)))

\* a session is playing, every player has disconnected and no answer is
\* pending: only the timeout can advance the round
C20_Witness ==
    \E g \in DOMAIN games :
        /\ games[g].state = "playing"
        /\ games[g].players = <<>>
        /\ \A i \in DOMAIN sleeping : sleeping[i].kind = "timeout"
        /\ ev.kind = "disconnect"

\* C21: the entry of a player is removed from a session only by the
\* disconnect of the connection recorded in that entry, never by the
\* disconnect of another connection (such as an older connection that had
\* joined under the same name).
C21_RemovedByOwnConnection ==
    [][\A g \in DOMAIN games :
         \A i \in DOMAIN games[g].players :
            ~DictHas(games'[g].players, games[g].players[i].key)
                => /\ ev'.kind = "disconnect"
                   /\ games[g].players[i].val.websocket = ev'.ws]_vars

\* C22: a step that sets the current question or sends a new_question
\* leaves the session in state playing; none does so in lobby or finished.
C22_QuestionOnlyWhilePlaying ==
    [][\A g \in DOMAIN games :
         (\/ /\ games'[g].current_question # None
             /\ games'[g].current_question # games[g].current_question
          \/ /\ ev'.game = g
             /\ \E k \in DOMAIN out' : out'[k].msg.type = "new_question")
            => games'[g].state = "playing"]_vars

\* C23: a start_game of the host makes the first item of the bank current
\* with question_number 1, a play_again of the host sets the index to 0,
\* and every other step either leaves the index and the current question
\* alone or makes the next item of the bank current, with the next
\* question_number, in one new_question.
C23_QuestionsInBankOrder ==
    [][\A g \in DOMAIN games :
         LET old == games[g]
             new == games'[g]
             host_sends(k) == ev'.kind = k /\ ev'.game = g /\ ev'.name = old.host
             presents(n) == /\ new.question_index = n
                            /\ new.current_question = new.questions[n]
                            /\ Len(out') = 1
                            /\ out'[1].msg.type = "new_question"
                            /\ out'[1].msg.question_number = n
                            /\ out'[1].msg.term = new.questions[n].term
         IN  IF host_sends("start_game") THEN presents(1)
             ELSE IF host_sends("play_again") THEN new.question_index = 0
             ELSE \/ /\ new.question_index = old.question_index
                     /\ new.current_question = old.current_question
                  \/ /\ old.question_index < Len(old.questions)
                     /\ presents(old.question_index + 1)]_vars

\* the second advance triggered for one round has just presented the last
\* item of the bank
C23_Witness ==
    /\ ev.kind \in Advances
    /\ ev.moved \in {"answer", "timeout"}
    /\ Len(out) = 1
    /\ out[1].msg.type = "new_question"
    /\ out[1].msg.question_number = Len(load_questions)

===========================================================================
